---- MODULE Spec2Model ----
(***************************************************************************)
(* Model of the ViralPay server and of the client screens that call it.    *)
(* The withdrawal ledger:                                                  *)
(*   src/server/routes.ts   POST /api/withdrawals (lines 715-768),         *)
(*                          requireAuth (lines 45-50)                      *)
(*   src/shared/schema.ts   users (7-27), withdrawals (83-94),             *)
(*                          notifications (97-106),                        *)
(*                          withdrawalRequestSchema (228-232)              *)
(*                                                                         *)
(* Money is counted in whole currency units; the decimal(18,8) columns and *)
(* the JSON numbers of the request bodies hold integers here, for which    *)
(* parseFloat(x.toString()) returns the stored value.                      *)
(*                                                                         *)
(* Every `await` of the handler is a point where another request handler   *)
(* may run: the handler is one action per database statement.  The read of *)
(* the user row and the two checks made on its result are one action, the  *)
(* checks being local computation on the row that was read.  No            *)
(* transaction spans the statements (src/server/db.ts: a plain pool).      *)
(* Each statement may fail (the handler's try/catch, lines 764-767).       *)
(*                                                                         *)
(* The handlers of likes, follows, comments, uploads, registration, login  *)
(* and logout (routes.ts lines 80-672) and the client code of              *)
(* src/client and src/unnamed/part_003 are modelled the same way, each in  *)
(* a specification of its own over the same tables and request contexts.   *)
(***************************************************************************)
EXTENDS Integers, Sequences, FiniteSets, TLC

\* Number of request-handling contexts (one per incoming API call).
MaxReqs == 2

\* if (amount < 10), routes.ts line 734
MinimumWithdrawal == 10

\* walletAddress: z.string().min(10), schema.ts line 230
WalletMinLen == 10

\* `withdrawal` before line 739 has run: no row id (row ids start at 1).
NoRow == 0

Reqs == 1..MaxReqs

\* users rows of the database
UserIds == {"u1", "u2"}

\* req.session.userId: absent, a user of the table, or a user whose row is gone
NoSession == "none"
SessionIds == UserIds \cup {"u3"}

\* a middleware that lets every request pass
RequireAuthAlways(sid) == TRUE

\* lines 45-50: requireAuth lets the request pass to the handler
RequireAuth(sid) == sid # NoSession

\* available_balance of the user rows when the model starts: one creator above
\* the minimum withdrawal, one below it
InitBalance == [u \in UserIds |-> IF u = "u1" THEN 50 ELSE 5]

\* network: z.enum(["BEP20", "ERC20"]), schema.ts line 231
Networks == {"BEP20", "ERC20"}

GoodWallet == "0x52908400098527886E0F7030069857D2E4169EE7"

\* req.body of POST /api/withdrawals: { amount, walletAddress, network }
Amounts == {-5, 0, 5, 8, 10, 20, 30, 60}

Bodies ==
  [amount : Amounts, walletAddress : {GoodWallet}, network : {"BEP20"}]
    \cup
  [amount : {20}, walletAddress : {"", "0x5290"}, network : {"ERC20"}]
    \cup
  [amount : {20}, walletAddress : {GoodWallet}, network : {"TRC20"}]

NoBody == [amount |-> 0, walletAddress |-> "", network |-> ""]

VARIABLES
  users,          \* users table: id -> balance columns
  withdrawals,    \* withdrawals table, in insertion order; id = position
  notifications,  \* notifications table
  pc,             \* per request: the statement the handler is about to run
  userId,         \* per request: const userId = req.session.userId (line 718)
  body,           \* per request: req.body (line 717)
  withdrawal,     \* per request: id of the row returned at line 739
  res,            \* per request: the response sent
  listed,         \* per request: the rows sent by GET /api/withdrawals (line 709)
  screen,         \* WithdrawalScreen: the form's state and its errors
  videos,         \* videos table: id -> owner and counters
  likes,          \* likes table
  local,          \* per request: req.params and the row the handler read
  card,           \* VideoCard of the feed: useState isLiked, likeCount
  follows,        \* follows table
  counts,         \* users table: follower_count and following_count columns
  accounts,       \* users table: id, email, username, password, is_banned
  sessions,       \* session store: per client cookie, session.userId
  token,          \* per client: an auth_token is stored (auth.tsx TOKEN_KEY)
  comments,       \* comments table
  uploads         \* files in the uploads directory (multer diskStorage)

\* the state outside the withdrawal ledger
social == <<screen, videos, likes, local, card, follows, counts,
            accounts, sessions, token, comments, uploads>>

\* what the handlers of the videos, likes and follows never touch
ledger == <<users, withdrawals, body, withdrawal, listed, screen, comments,
            uploads>>

\* the same without the request body, which a response clears
still == <<users, withdrawals, withdrawal, listed, screen, comments, uploads>>

\* the request contexts and the withdrawal form
context == <<pc, userId, body, withdrawal, res, listed, screen>>

likeTables == <<videos, likes, card>>
followTables == <<follows, counts>>
authTables == <<accounts, sessions, token>>

vars == <<users, withdrawals, notifications, pc, userId, body, withdrawal, res,
          listed, social>>

db == <<users, withdrawals, notifications>>

----------------------------------------------------------------------------
\* Responses

Response(status, message, row) ==
  [status |-> status, message |-> message, withdrawal |-> row]

NoResponse == Response(0, "", NoRow)

\* error.message of the error thrown by a failing statement (line 766)
ReadError    == "select users failed"
InsertError  == "insert withdrawals failed"
UpdateError  == "update users failed"
NotifyError  == "insert notifications failed"

\* the answer GET /api/auth/me gives for a missing user row (line 189)
UserNotFoundAs401 == Response(401, "User not found", NoRow)

\* lines 724-726: the session's user has no row
UserNotFound == Response(404, "User not found", NoRow)

\* the two checks in the other order
CheckAmountMinimumFirst(amount, availableBalance) ==
  IF amount < MinimumWithdrawal THEN "Minimum withdrawal is $10"
  ELSE IF amount > availableBalance THEN "Insufficient balance"
  ELSE "ok"

\* the minimum check left out
CheckAmountNoMinimum(amount, availableBalance) ==
  IF amount > availableBalance THEN "Insufficient balance" ELSE "ok"

\* lines 728-736: the balance check comes first, then the minimum
CheckAmount(amount, availableBalance) ==
  IF amount > availableBalance THEN "Insufficient balance"
  ELSE IF amount < MinimumWithdrawal THEN "Minimum withdrawal is $10"
  ELSE "ok"

\* the amount added instead of subtracted
DeductWrongSign(availableBalance, amount) == availableBalance + amount

\* line 750: sql`${schema.users.availableBalance} - ${amount}`
Deduct(availableBalance, amount) == availableBalance - amount

\* the row of the user replaced, as an upsert keyed by the user would do
InsertRowReplacing(rows, row) ==
  Append(SelectSeq(rows, LAMBDA w : w.userId # row.userId), row)

\* line 739: db.insert(schema.withdrawals): one more row, the others as they are
InsertRow(rows, row) == Append(rows, row)

\* the deduction written to total_earnings
ApplyDeductionToEarnings(row, amount) ==
  [row EXCEPT !.totalEarnings = Deduct(@, amount)]

\* lines 748-752: .set({ availableBalance: ... }) on the user's row
ApplyDeduction(row, amount) ==
  [row EXCEPT !.availableBalance = Deduct(@, amount)]

\* lines 739-745: the row inserted for a request
NewWithdrawal(id, uid, b) ==
  [id |-> id, userId |-> uid, amount |-> b.amount,
   walletAddress |-> b.walletAddress, network |-> b.network,
   status |-> "pending"]

\* lines 755-761
NewNotification(uid, id) ==
  [userId |-> uid, type |-> "withdrawal", withdrawalId |-> id,
   isRead |-> FALSE]

Reverse(rows) == [i \in 1..Len(rows) |-> rows[Len(rows) + 1 - i]]

\* the where clause left out
FindWithdrawalsOfAll(uid) == Reverse(withdrawals)

\* lines 704-707: findMany where userId = session user, newest first
FindWithdrawals(uid) ==
  Reverse(SelectSeq(withdrawals, LAMBDA w : w.userId = uid))

\* lines 691-693: set isRead on the notifications of the session user
MarkAllRead(rows, uid) ==
  {IF n.userId = uid THEN [n EXCEPT !.isRead = TRUE] ELSE n : n \in rows}

ListError    == "select withdrawals failed"
MarkError    == "update notifications failed"

----------------------------------------------------------------------------
\* WithdrawalScreen (src/unnamed/part_003)

\* const minimumWithdrawal = 10, part_003 line 31
ScreenMinimum == 10

\* parseFloat(amount) of the text typed into the amount field
ScreenAmounts == Amounts \cup {9, 11, 50}

\* parseFloat(user.availableBalance), the balance the client holds (line 30)
ScreenBalances == {0, 5, 9, 10, 11, 50}

ScreenWallets == {GoodWallet, "", "0x5290"}

NoErrors == [amount |-> "", walletAddress |-> ""]

Screens ==
  [stage : {"form"}, amount : ScreenAmounts,
   availableBalance : ScreenBalances, walletAddress : ScreenWallets,
   errors : {NoErrors}]

\* the minimum check rejecting the minimum itself
AmountErrorStrict(amountNum, availableBalance) ==
  IF amountNum <= ScreenMinimum THEN "Minimum withdrawal is $10"
  ELSE IF amountNum > availableBalance THEN "Insufficient balance"
  ELSE ""

\* part_003 lines 66-73, for a numeric amount: newErrors.amount
AmountError(amountNum, availableBalance) ==
  IF amountNum < ScreenMinimum THEN "Minimum withdrawal is $10"
  ELSE IF amountNum > availableBalance THEN "Insufficient balance"
  ELSE ""

\* part_003 lines 75-79: newErrors.walletAddress
WalletError(walletAddress) ==
  IF walletAddress = "" THEN "Wallet address is required"
  ELSE IF Len(walletAddress) < 20 THEN "Please enter a valid wallet address"
  ELSE ""

\* part_003 lines 62-93: handleWithdraw
HandleWithdraw ==
  /\ screen.stage = "form"
  /\ LET e == [amount |-> AmountError(screen.amount, screen.availableBalance),
               walletAddress |-> WalletError(screen.walletAddress)]
     IN screen' = [screen EXCEPT !.errors = e,
                     !.stage = IF e = NoErrors THEN "confirm" ELSE "errors"]
  /\ UNCHANGED <<db, pc, userId, body, withdrawal, res, listed>>
  /\ UNCHANGED <<videos, likes, local, card, followTables, authTables>>
  /\ UNCHANGED <<comments, uploads>>

----------------------------------------------------------------------------
\* the ledger and the request contexts when the server starts
LedgerInit ==
  /\ users = [u \in UserIds |->
                [availableBalance |-> InitBalance[u],
                 totalEarnings |-> InitBalance[u],
                 withdrawnAmount |-> 0]]
  /\ withdrawals = <<>>
  /\ notifications = {}
  /\ pc = [p \in Reqs |-> "idle"]
  /\ userId = [p \in Reqs |-> NoSession]
  /\ body = [p \in Reqs |-> NoBody]
  /\ withdrawal = [p \in Reqs |-> NoRow]
  /\ res = [p \in Reqs |-> NoResponse]
  /\ listed = [p \in Reqs |-> <<>>]

\* the form as the screen opens it for the model's first creator
ScreenInit ==
  screen = [stage |-> "form", amount |-> 20, availableBalance |-> 50,
            walletAddress |-> GoodWallet, errors |-> NoErrors]

\* One published video of u2, liked by u1 before the model starts.
VideoIds == {"v1"}

\* req.params.videoId: a video of the table or an id without row
VideoParams == VideoIds \cup {"v9"}

\* id of the like row present at the start (rows inserted by request p get id p)
SeedLike == 100

NewLike(id, uid, vid) == [id |-> id, userId |-> uid, videoId |-> vid]

NoLocal == [target |-> "", found |-> NoRow, client |-> "", name |-> "",
            secret |-> ""]

\* id of the follow row present at the start
SeedFollow == 200

NewFollow(id, follower, following) ==
  [id |-> id, followerId |-> follower, followingId |-> following]

NoCounts == [followerCount |-> 0, followingCount |-> 0]

\* u2 follows u1 when the model starts
FollowInit ==
  /\ follows = {NewFollow(SeedFollow, "u2", "u1")}
  /\ counts = [u \in UserIds |->
                 IF u = "u1" THEN [NoCounts EXCEPT !.followerCount = 1]
                             ELSE [NoCounts EXCEPT !.followingCount = 1]]

\* the devices whose cookies the session store knows
Clients == {"c1", "c2"}

NewAccount(id, email, username, password) ==
  [id |-> id, email |-> email, username |-> username, password |-> password,
   isBanned |-> FALSE]

\* the two users of the model have registered; nobody is logged in
AuthInit ==
  /\ accounts = {NewAccount("u1", "ann@x.io", "ann", "pw1"),
                 NewAccount("u2", "bob@x.io", "bob", "pw2")}
  /\ sessions = [c \in Clients |-> NoSession]
  /\ token = [c \in Clients |-> FALSE]

SocialInit ==
  /\ AuthInit
  /\ videos = [v \in VideoIds |->
                 [userId |-> "u2", likeCount |-> 1, commentCount |-> 0]]
  /\ comments = {}
  /\ uploads = {}
  /\ likes = {NewLike(SeedLike, "u1", "v1")}
  /\ local = [p \in Reqs |-> NoLocal]
  /\ FollowInit

\* the card of v1 as the feed of u1 shows it (VideoCard.tsx lines 53-54)
CardInit == card = [isLiked |-> TRUE, likeCount |-> 1]

Init == LedgerInit /\ ScreenInit /\ SocialInit /\ CardInit

\* The handler ends: the response is sent and its locals are gone.
Respond(p, r) ==
  /\ pc' = [pc EXCEPT ![p] = "done"]
  /\ res' = [res EXCEPT ![p] = r]
  /\ userId' = [userId EXCEPT ![p] = NoSession]
  /\ body' = [body EXCEPT ![p] = NoBody]

\* Request contexts are taken in order.
Fresh(p) == pc[p] = "idle" /\ \A q \in Reqs : q < p => pc[q] # "idle"

\* lines 45-50 and 715-736: requireAuth, the read of the user row and the checks
PostWithdrawals(p, sid, b) ==
  /\ UNCHANGED social
  /\ Fresh(p)
  /\ UNCHANGED <<db, withdrawal, listed>>
  /\ IF ~RequireAuth(sid)
       THEN Respond(p, Response(401, "Unauthorized", NoRow))
     ELSE IF sid \notin DOMAIN users
       THEN Respond(p, UserNotFound)
     ELSE IF CheckAmount(b.amount, users[sid].availableBalance) # "ok"
       THEN Respond(p, Response(400,
                      CheckAmount(b.amount, users[sid].availableBalance), NoRow))
     ELSE /\ pc' = [pc EXCEPT ![p] = "insert"]
          /\ userId' = [userId EXCEPT ![p] = sid]
          /\ body' = [body EXCEPT ![p] = b]
          /\ UNCHANGED res

\* lines 720-722 throw: catch, 500
ReadFails(p) ==
  /\ UNCHANGED social
  /\ Fresh(p)
  /\ Respond(p, Response(500, ReadError, NoRow))
  /\ UNCHANGED <<db, withdrawal, listed>>

\* lines 739-745
InsertWithdrawal(p) ==
  /\ UNCHANGED social
  /\ pc[p] = "insert"
  /\ withdrawals' = InsertRow(withdrawals,
                      NewWithdrawal(Len(withdrawals) + 1, userId[p], body[p]))
  /\ withdrawal' = [withdrawal EXCEPT ![p] = Len(withdrawals) + 1]
  /\ pc' = [pc EXCEPT ![p] = "update"]
  /\ UNCHANGED <<users, notifications, userId, body, res, listed>>

InsertWithdrawalFails(p) ==
  /\ UNCHANGED social
  /\ pc[p] = "insert"
  /\ Respond(p, Response(500, InsertError, NoRow))
  /\ UNCHANGED <<db, withdrawal, listed>>

\* lines 748-752
UpdateBalance(p) ==
  /\ UNCHANGED social
  /\ pc[p] = "update"
  /\ users' = [users EXCEPT ![userId[p]] = ApplyDeduction(@, body[p].amount)]
  /\ pc' = [pc EXCEPT ![p] = "notify"]
  /\ UNCHANGED <<withdrawals, notifications, userId, body, withdrawal, res, listed>>

UpdateBalanceFails(p) ==
  /\ UNCHANGED social
  /\ pc[p] = "update"
  /\ Respond(p, Response(500, UpdateError, NoRow))
  /\ UNCHANGED <<db, withdrawal, listed>>

\* lines 755-763
InsertNotification(p) ==
  /\ UNCHANGED social
  /\ pc[p] = "notify"
  /\ notifications' = notifications \cup
                        {NewNotification(userId[p], withdrawal[p])}
  /\ Respond(p, Response(200, "", withdrawal[p]))
  /\ UNCHANGED <<users, withdrawals, withdrawal, listed>>

\* a catch that logs the error and sends nothing
InsertNotificationFailsSilently(p) ==
  /\ UNCHANGED social
  /\ pc[p] = "notify"
  /\ pc' = [pc EXCEPT ![p] = "failed"]
  /\ UNCHANGED <<db, userId, body, withdrawal, res, listed>>

\* lines 755-761 throw: catch, 500 (lines 764-767)
InsertNotificationFails(p) ==
  /\ UNCHANGED social
  /\ pc[p] = "notify"
  /\ Respond(p, Response(500, NotifyError, NoRow))
  /\ UNCHANGED <<db, withdrawal, listed>>

\* lines 45-50 and 702-709: GET /api/withdrawals
GetWithdrawals(p, sid) ==
  /\ UNCHANGED social
  /\ Fresh(p)
  /\ UNCHANGED <<db, withdrawal>>
  /\ IF ~RequireAuth(sid)
       THEN /\ Respond(p, Response(401, "Unauthorized", NoRow))
            /\ UNCHANGED listed
       ELSE /\ Respond(p, Response(200, "", NoRow))
            /\ listed' = [listed EXCEPT ![p] = FindWithdrawals(sid)]

\* lines 704-707 throw: catch, 500 (lines 710-712)
GetWithdrawalsFails(p) ==
  /\ UNCHANGED social
  /\ Fresh(p)
  /\ Respond(p, Response(500, ListError, NoRow))
  /\ UNCHANGED <<db, withdrawal, listed>>

\* lines 45-50 and 689-695: POST /api/notifications/read-all
ReadAllNotifications(p, sid) ==
  /\ UNCHANGED social
  /\ Fresh(p)
  /\ UNCHANGED <<users, withdrawals, withdrawal, listed>>
  /\ IF ~RequireAuth(sid)
       THEN /\ Respond(p, Response(401, "Unauthorized", NoRow))
            /\ UNCHANGED notifications
       ELSE /\ notifications' = MarkAllRead(notifications, sid)
            /\ Respond(p, Response(200, "", NoRow))

\* lines 691-693 throw: catch, 500 (lines 696-698)
ReadAllNotificationsFails(p) ==
  /\ UNCHANGED social
  /\ Fresh(p)
  /\ Respond(p, Response(500, MarkError, NoRow))
  /\ UNCHANGED <<db, withdrawal, listed>>

Next ==
  \E p \in Reqs :
    \/ \E sid \in SessionIds \cup {NoSession}, b \in Bodies :
         PostWithdrawals(p, sid, b)
    \/ ReadFails(p)
    \/ InsertWithdrawal(p)
    \/ InsertWithdrawalFails(p)
    \/ UpdateBalance(p)
    \/ UpdateBalanceFails(p)
    \/ InsertNotification(p)
    \/ InsertNotificationFails(p)
    \/ \E sid \in SessionIds \cup {NoSession} : GetWithdrawals(p, sid)
    \/ GetWithdrawalsFails(p)
    \/ \E sid \in SessionIds \cup {NoSession} : ReadAllNotifications(p, sid)
    \/ ReadAllNotificationsFails(p)

Spec == Init /\ [][Next]_vars

\* the statements a started handler still has to run
Continue(p) ==
  \/ InsertWithdrawal(p) \/ InsertWithdrawalFails(p)
  \/ UpdateBalance(p) \/ UpdateBalanceFails(p)
  \/ InsertNotification(p) \/ InsertNotificationFails(p)

\* req.body of the requests whose termination is checked: amounts below the
\* minimum, within the balance and above it
FairBodies ==
  {b \in Bodies : b.amount \in {5, 20, 30, 60} /\ b.network = "BEP20"}

\* POST /api/withdrawals alone, with every failing statement
FairNext ==
  \E p \in Reqs :
    \/ \E sid \in SessionIds \cup {NoSession}, b \in FairBodies :
         PostWithdrawals(p, sid, b)
    \/ ReadFails(p)
    \/ Continue(p)

\* Every awaited statement settles (the database answers or the driver
\* throws) and the event loop then resumes the handler.
FairSpec ==
  Init /\ [][FairNext]_vars /\ \A p \in Reqs : WF_vars(Continue(p))

----------------------------------------------------------------------------
\* POST /api/videos/:videoId/like (routes.ts lines 327-379)

\* res.json({ liked: ... }), lines 347 and 375
Liked   == Response(200, "liked: true", NoRow)
Unliked == Response(200, "liked: false", NoRow)

LikeError == "like statement failed"

LikeLabels == {"likeDelete", "likeDec", "likeInsert", "likeInc", "likeNotify"}

\* the like rows of user uid on video vid
LikesOf(uid, vid) == {l \in likes : l.userId = uid /\ l.videoId = vid}

\* lines 356-373: the like notification, in the shape of the notification rows
LikeNotification(owner) ==
  [userId |-> owner, type |-> "like", withdrawalId |-> NoRow, isRead |-> FALSE]

\* lines 45-50 and 329-340: requireAuth, then findFirst of the caller's like
\* of the video; with several such rows the database returns any one of them
StartLike(p, sid, vid) ==
  /\ UNCHANGED <<followTables, authTables>>
  /\ Fresh(p)
  /\ UNCHANGED <<ledger, notifications, videos, likes>>
  /\ IF ~RequireAuth(sid)
       THEN /\ Respond(p, Response(401, "Unauthorized", NoRow))
            /\ UNCHANGED local
       ELSE /\ pc' = [pc EXCEPT ![p] =
                        IF LikesOf(sid, vid) = {} THEN "likeInsert"
                                                  ELSE "likeDelete"]
            /\ userId' = [userId EXCEPT ![p] = sid]
            /\ \E f \in IF LikesOf(sid, vid) = {} THEN {NoRow}
                         ELSE {l.id : l \in LikesOf(sid, vid)} :
                 local' = [local EXCEPT ![p] = [NoLocal EXCEPT !.target = vid, !.found = f]]
            /\ UNCHANGED <<res>>

\* a like request sent by any client but the card of the model
PostLike(p, sid, vid) == StartLike(p, sid, vid) /\ UNCHANGED card

\* line 342: delete where id = existingLike.id (no row if it is gone already)
LikeDelete(p) ==
  /\ UNCHANGED <<followTables, authTables>>
  /\ pc[p] = "likeDelete"
  /\ likes' = {l \in likes : l.id # local[p].found}
  /\ pc' = [pc EXCEPT ![p] = "likeDec"]
  /\ UNCHANGED <<ledger, notifications, videos, local, card, userId, res>>

\* line 344: sql`${schema.videos.likeCount} - 1`
Decrement(n) == n - 1

\* lines 343-347
LikeDec(p) ==
  /\ UNCHANGED <<followTables, authTables>>
  /\ pc[p] = "likeDec"
  /\ videos' = [v \in DOMAIN videos |->
                  IF v = local[p].target
                    THEN [videos[v] EXCEPT !.likeCount = Decrement(@)]
                    ELSE videos[v]]
  /\ Respond(p, Unliked)
  /\ local' = [local EXCEPT ![p] = NoLocal]
  /\ UNCHANGED still
  /\ UNCHANGED <<notifications, likes, card>>

\* line 351: insert into likes; video_id references videos.id (schema.ts 58)
\* and user_id references users.id (schema.ts 57)
LikeInsert(p) ==
  /\ UNCHANGED <<followTables, authTables>>
  /\ pc[p] = "likeInsert"
  /\ local[p].target \in DOMAIN videos
  /\ userId[p] \in DOMAIN users
  /\ likes' = likes \cup {NewLike(p, userId[p], local[p].target)}
  /\ pc' = [pc EXCEPT ![p] = "likeInc"]
  /\ UNCHANGED <<ledger, notifications, videos, local, card, userId, res>>

\* lines 352-354
LikeInc(p) ==
  /\ UNCHANGED <<followTables, authTables>>
  /\ pc[p] = "likeInc"
  /\ videos' = [videos EXCEPT ![local[p].target].likeCount = @ + 1]
  /\ pc' = [pc EXCEPT ![p] = "likeNotify"]
  /\ UNCHANGED <<ledger, notifications, likes, local, card, userId, res>>

\* lines 357-375: the owner of the video and the liker are read (neither
\* value is ever written by a handler) and the owner is notified
LikeNotify(p) ==
  /\ UNCHANGED <<followTables, authTables>>
  /\ pc[p] = "likeNotify"
  /\ notifications' =
       IF videos[local[p].target].userId # userId[p]
         THEN notifications \cup
                {LikeNotification(videos[local[p].target].userId)}
         ELSE notifications
  /\ Respond(p, Liked)
  /\ local' = [local EXCEPT ![p] = NoLocal]
  /\ UNCHANGED still
  /\ UNCHANGED <<videos, likes, card>>

\* any statement of the handler throws: catch, 500 (lines 376-378)
LikeFails(p) ==
  /\ UNCHANGED <<followTables, authTables>>
  /\ pc[p] \in LikeLabels
  /\ Respond(p, Response(500, LikeError, NoRow))
  /\ local' = [local EXCEPT ![p] = NoLocal]
  /\ UNCHANGED still
  /\ UNCHANGED <<notifications, videos, likes, card>>

\* line 333 throws
LikeReadFails(p) ==
  /\ UNCHANGED <<followTables, authTables>>
  /\ Fresh(p)
  /\ Respond(p, Response(500, LikeError, NoRow))
  /\ UNCHANGED still
  /\ UNCHANGED <<notifications, videos, likes, local, card>>

LikeStep(p) ==
  \/ LikeDelete(p)
  \/ LikeDec(p)
  \/ LikeInsert(p)
  \/ LikeInc(p)
  \/ LikeNotify(p)

LikeNext ==
  \E p \in Reqs :
    \/ \E sid \in SessionIds \cup {NoSession}, vid \in VideoParams :
         PostLike(p, sid, vid)
    \/ LikeReadFails(p)
    \/ LikeStep(p)
    \/ LikeFails(p)

LikeSpec == Init /\ [][LikeNext]_vars

----------------------------------------------------------------------------
\* VideoCard of video v1 in the feed of u1 (VideoCard.tsx, FeedScreen.tsx)

CardUser  == "u1"
CardVideo == "v1"

\* VideoCard.tsx lines 98-112: handleLikePress; onLike is FeedScreen's
\* handleLike (lines 48-54), which posts the like request
LikePress(p) ==
  IF card.isLiked
    THEN /\ card' = [isLiked |-> FALSE,
                     likeCount |-> IF card.likeCount > 0
                                     THEN card.likeCount - 1 ELSE 0]
         /\ p = 1
         /\ UNCHANGED <<db, context, comments, uploads>>
         /\ UNCHANGED <<videos, likes, local, followTables, authTables>>
    ELSE /\ card' = [isLiked |-> TRUE, likeCount |-> card.likeCount + 1]
         /\ StartLike(p, CardUser, CardVideo)

\* VideoCard.tsx lines 80-96: handleDoubleTapLike
DoubleTap(p) ==
  IF ~card.isLiked
    THEN /\ card' = [isLiked |-> TRUE, likeCount |-> card.likeCount + 1]
         /\ StartLike(p, CardUser, CardVideo)
    ELSE /\ p = 1
         /\ UNCHANGED vars

\* the card is the only client and every statement succeeds
CardNext ==
  \E p \in Reqs :
    \/ LikePress(p)
    \/ DoubleTap(p)
    \/ LikeStep(p)

\* like rows that may exist when the feed is loaded
SeedLikes == {NewLike(SeedLike, "u1", "v1"), NewLike(SeedLike + 1, "u2", "v1")}

\* The feed (routes.ts lines 236-256) gives the card the stored likeCount and
\* isLiked = the user has a like row of the video: the initial states agree.
CardSpecInit ==
  /\ LedgerInit /\ ScreenInit /\ FollowInit /\ AuthInit
  /\ local = [p \in Reqs |-> NoLocal]
  /\ likes \in SUBSET SeedLikes
  /\ videos = [v \in VideoIds |->
                 [userId |-> "u2", likeCount |-> Cardinality(likes),
                  commentCount |-> 0]]
  /\ comments = {}
  /\ uploads = {}
  /\ card = [isLiked |-> LikesOf(CardUser, CardVideo) # {},
             likeCount |-> videos[CardVideo].likeCount]

CardSpec == CardSpecInit /\ [][CardNext]_vars

----------------------------------------------------------------------------
\* POST and DELETE /api/users/:userId/follow (routes.ts lines 588-672)

FollowError == "follow statement failed"

FollowLabels ==
  {"followInsert", "followIncFollower", "followIncFollowing", "followNotify",
   "unfollowDelete", "unfollowDecFollower", "unfollowDecFollowing"}

\* the follow rows from follower to following
FollowsOf(follower, following) ==
  {f \in follows : f.followerId = follower /\ f.followingId = following}

\* lines 627-633
FollowNotification(target) ==
  [userId |-> target, type |-> "follow", withdrawalId |-> NoRow,
   isRead |-> FALSE]

\* lines 45-50 and 590-606: requireAuth, the self check, findFirst existingFollow
PostFollow(p, sid, target) ==
  /\ Fresh(p)
  /\ UNCHANGED <<ledger, notifications, authTables, likeTables, followTables>>
  /\ IF ~RequireAuth(sid)
       THEN Respond(p, Response(401, "Unauthorized", NoRow)) /\ UNCHANGED local
     ELSE IF target = sid
       THEN Respond(p, Response(400, "Cannot follow yourself", NoRow))
            /\ UNCHANGED local
     ELSE IF FollowsOf(sid, target) # {}
       THEN Respond(p, Response(400, "Already following", NoRow))
            /\ UNCHANGED local
     ELSE /\ pc' = [pc EXCEPT ![p] = "followInsert"]
          /\ userId' = [userId EXCEPT ![p] = sid]
          /\ local' = [local EXCEPT ![p] = [NoLocal EXCEPT !.target = target]]
          /\ UNCHANGED res

\* lines 608-611: insert into follows; follower_id and following_id reference
\* users.id (schema.ts lines 77-78)
FollowInsert(p) ==
  /\ pc[p] = "followInsert"
  /\ userId[p] \in DOMAIN users
  /\ local[p].target \in DOMAIN users
  /\ follows' = follows \cup {NewFollow(p, userId[p], local[p].target)}
  /\ pc' = [pc EXCEPT ![p] = "followIncFollower"]
  /\ UNCHANGED <<ledger, notifications, authTables, likeTables, counts, local, userId, res>>

\* lines 614-616
FollowIncFollower(p) ==
  /\ pc[p] = "followIncFollower"
  /\ counts' = [counts EXCEPT ![local[p].target].followerCount = @ + 1]
  /\ pc' = [pc EXCEPT ![p] = "followIncFollowing"]
  /\ UNCHANGED <<ledger, notifications, authTables, likeTables, follows, local, userId, res>>

\* lines 618-620
FollowIncFollowing(p) ==
  /\ pc[p] = "followIncFollowing"
  /\ counts' = [counts EXCEPT ![userId[p]].followingCount = @ + 1]
  /\ pc' = [pc EXCEPT ![p] = "followNotify"]
  /\ UNCHANGED <<ledger, notifications, authTables, likeTables, follows, local, userId, res>>

\* lines 623-635: the follower is read (its username is never written) and
\* the followed user is notified
FollowNotify(p) ==
  /\ pc[p] = "followNotify"
  /\ notifications' = notifications \cup {FollowNotification(local[p].target)}
  /\ Respond(p, Response(200, "following: true", NoRow))
  /\ local' = [local EXCEPT ![p] = NoLocal]
  /\ UNCHANGED still
  /\ UNCHANGED <<likeTables, followTables, authTables>>

\* lines 45-50 and 643-655: requireAuth and findFirst of the follow row; with
\* several such rows the database returns any one of them
DeleteFollow(p, sid, target) ==
  /\ Fresh(p)
  /\ UNCHANGED <<ledger, notifications, authTables, likeTables, followTables>>
  /\ IF ~RequireAuth(sid)
       THEN Respond(p, Response(401, "Unauthorized", NoRow)) /\ UNCHANGED local
     ELSE IF FollowsOf(sid, target) = {}
       THEN Respond(p, Response(400, "Not following", NoRow))
            /\ UNCHANGED local
     ELSE /\ pc' = [pc EXCEPT ![p] = "unfollowDelete"]
          /\ userId' = [userId EXCEPT ![p] = sid]
          /\ \E f \in FollowsOf(sid, target) :
               local' = [local EXCEPT ![p] =
                           [NoLocal EXCEPT !.target = target, !.found = f.id]]
          /\ UNCHANGED res

\* line 657
UnfollowDelete(p) ==
  /\ pc[p] = "unfollowDelete"
  /\ follows' = {f \in follows : f.id # local[p].found}
  /\ pc' = [pc EXCEPT ![p] = "unfollowDecFollower"]
  /\ UNCHANGED <<ledger, notifications, authTables, likeTables, counts, local, userId, res>>

\* GREATEST(n - 1, 0), lines 661 and 665
DecrementToZero(n) == IF n - 1 > 0 THEN n - 1 ELSE 0

\* lines 660-662
UnfollowDecFollower(p) ==
  /\ pc[p] = "unfollowDecFollower"
  /\ counts' = [counts EXCEPT
                  ![local[p].target].followerCount = DecrementToZero(@)]
  /\ pc' = [pc EXCEPT ![p] = "unfollowDecFollowing"]
  /\ UNCHANGED <<ledger, notifications, authTables, likeTables, follows, local, userId, res>>

\* lines 664-668
UnfollowDecFollowing(p) ==
  /\ pc[p] = "unfollowDecFollowing"
  /\ counts' = [counts EXCEPT
                  ![userId[p]].followingCount = DecrementToZero(@)]
  /\ Respond(p, Response(200, "following: false", NoRow))
  /\ local' = [local EXCEPT ![p] = NoLocal]
  /\ UNCHANGED still
  /\ UNCHANGED <<notifications, likeTables, follows, authTables>>

\* any statement of the two handlers throws: catch, 500 (lines 636-638, 669-671)
FollowFails(p) ==
  /\ pc[p] \in FollowLabels
  /\ Respond(p, Response(500, FollowError, NoRow))
  /\ local' = [local EXCEPT ![p] = NoLocal]
  /\ UNCHANGED still
  /\ UNCHANGED <<notifications, likeTables, followTables, authTables>>

\* the findFirst of line 597 or 646 throws
FollowReadFails(p) ==
  /\ Fresh(p)
  /\ Respond(p, Response(500, FollowError, NoRow))
  /\ UNCHANGED still
  /\ UNCHANGED <<notifications, likeTables, followTables, authTables, local>>

FollowStep(p) ==
  \/ FollowInsert(p)
  \/ FollowIncFollower(p)
  \/ FollowIncFollowing(p)
  \/ FollowNotify(p)
  \/ UnfollowDelete(p)
  \/ UnfollowDecFollower(p)
  \/ UnfollowDecFollowing(p)

FollowNext ==
  \E p \in Reqs :
    \/ \E sid \in SessionIds \cup {NoSession}, target \in SessionIds :
         PostFollow(p, sid, target)
    \/ \E sid \in SessionIds \cup {NoSession}, target \in SessionIds :
         DeleteFollow(p, sid, target)
    \/ FollowReadFails(p)
    \/ FollowStep(p)
    \/ FollowFails(p)

FollowSpec == Init /\ [][FollowNext]_vars

----------------------------------------------------------------------------
\* Registration, login, logout and the session (routes.ts lines 80-219,
\* auth.tsx lines 69-87)

\* String.prototype.toLowerCase on the texts of the model
ToLowerCase(t) ==
  CASE t = "Cy@x.io" -> "cy@x.io"
    [] t = "Ann@x.io" -> "ann@x.io"
    [] t = "Cy" -> "cy"
    [] OTHER -> t

\* req.body of POST /api/auth/register
RegisterBodies ==
  {[email |-> "cy@x.io", username |-> "cy", password |-> "pw3"],
   [email |-> "Cy@x.io", username |-> "Cy", password |-> "pw3"],
   [email |-> "cy@x.io", username |-> "dan", password |-> "pw3"],
   [email |-> "dan@x.io", username |-> "cy", password |-> "pw3"],
   [email |-> "Ann@x.io", username |-> "zed", password |-> "pw3"],
   [email |-> "", username |-> "zed", password |-> "pw3"]}

\* req.body of POST /api/auth/login
LoginBodies ==
  {[email |-> "Ann@x.io", password |-> "pw1"],
   [email |-> "ann@x.io", password |-> "bad"],
   [email |-> "zed@x.io", password |-> "pw1"]}

\* gen_random_uuid() of the row inserted by request p
NewUserId(p) == "n" \o ToString(p)

AuthError    == "auth statement failed"
DuplicateKey == "duplicate key value violates unique constraint"

\* the row of the user id, if any
AccountsOf(id) == {a \in accounts : a.id = id}

Banned(id) == \E a \in AccountsOf(id) : a.isBanned

\* a table without the unique constraints
NoConflict(email, username) == FALSE

\* schema.ts lines 9-10: email and username are unique
Conflict(email, username) ==
  \E a \in accounts : a.email = email \/ a.username = username

\* lines 82-99: validation and findFirst of a user with the email or username
PostRegister(p, c, b) ==
  /\ Fresh(p)
  /\ UNCHANGED <<ledger, notifications, likeTables, followTables, authTables>>
  /\ IF b.email = "" \/ b.username = "" \/ b.password = ""
       THEN Respond(p, Response(400, "All fields are required", NoRow))
            /\ UNCHANGED local
     ELSE IF \E a \in accounts : \/ a.email = ToLowerCase(b.email)
                                 \/ a.username = ToLowerCase(b.username)
       THEN Respond(p, Response(400, "Email or username already exists", NoRow))
            /\ UNCHANGED local
     ELSE /\ pc' = [pc EXCEPT ![p] = "registerInsert"]
          /\ local' = [local EXCEPT ![p] =
                         [NoLocal EXCEPT !.target = ToLowerCase(b.email),
                                         !.name = ToLowerCase(b.username),
                                         !.secret = b.password,
                                         !.client = c]]
          /\ UNCHANGED <<userId, res>>

\* lines 102-130: the password is hashed, the row inserted, the session set
RegisterInsert(p) ==
  /\ pc[p] = "registerInsert"
  /\ ~Conflict(local[p].target, local[p].name)
  /\ accounts' = accounts \cup
       {NewAccount(NewUserId(p), local[p].target, local[p].name,
                   local[p].secret)}
  /\ sessions' = [sessions EXCEPT ![local[p].client] = NewUserId(p)]
  /\ token' = [token EXCEPT ![local[p].client] = TRUE]
  /\ Respond(p, Response(200, "user", NoRow))
  /\ local' = [local EXCEPT ![p] = NoLocal]
  /\ UNCHANGED still
  /\ UNCHANGED <<notifications, likeTables, followTables>>

\* line 105 throws on the unique constraint: catch, 500 (lines 131-134)
RegisterInsertConflict(p) ==
  /\ pc[p] = "registerInsert"
  /\ Conflict(local[p].target, local[p].name)
  /\ Respond(p, Response(500, DuplicateKey, NoRow))
  /\ local' = [local EXCEPT ![p] = NoLocal]
  /\ UNCHANGED still
  /\ UNCHANGED <<notifications, likeTables, followTables, authTables>>

\* lines 139-151: findFirst by email, the ban check
PostLogin(p, c, b) ==
  /\ Fresh(p)
  /\ UNCHANGED <<ledger, notifications, likeTables, followTables, authTables>>
  /\ LET found == {a \in accounts : a.email = ToLowerCase(b.email)}
     IN IF found = {}
          THEN Respond(p, Response(401, "Invalid email or password", NoRow))
               /\ UNCHANGED local
        ELSE IF \E a \in found : a.isBanned
          THEN Respond(p, Response(403, "Your account has been suspended",
                                   NoRow))
               /\ UNCHANGED local
        ELSE /\ pc' = [pc EXCEPT ![p] = "loginCompare"]
             /\ \E a \in found :
                  local' = [local EXCEPT ![p] =
                              [NoLocal EXCEPT !.target = a.id,
                                              !.name = a.password,
                                              !.secret = b.password,
                                              !.client = c]]
             /\ UNCHANGED <<userId, res>>

\* lines 153-175: bcrypt.compare against the password read at line 141
LoginCompare(p) ==
  /\ pc[p] = "loginCompare"
  /\ UNCHANGED still
  /\ UNCHANGED <<notifications, likeTables, followTables, accounts>>
  /\ local' = [local EXCEPT ![p] = NoLocal]
  /\ IF local[p].secret # local[p].name
       THEN /\ Respond(p, Response(401, "Invalid email or password", NoRow))
            /\ UNCHANGED <<sessions, token>>
       ELSE /\ sessions' = [sessions EXCEPT ![local[p].client] = local[p].target]
            /\ token' = [token EXCEPT ![local[p].client] = TRUE]
            /\ Respond(p, Response(200, "user", NoRow))

\* a statement of register or login throws: catch, 500 (lines 131-134, 176-179)
AuthFails(p) ==
  /\ \/ pc[p] \in {"registerInsert", "loginCompare"}
     \/ Fresh(p)
  /\ Respond(p, Response(500, AuthError, NoRow))
  /\ local' = [local EXCEPT ![p] = NoLocal]
  /\ UNCHANGED still
  /\ UNCHANGED <<notifications, likeTables, followTables, authTables>>

\* lines 45-50 and 182-206: GET /api/auth/me with the cookie of client c
GetMe(p, c) ==
  /\ Fresh(p)
  /\ UNCHANGED <<ledger, notifications, likeTables, followTables, authTables>>
  /\ UNCHANGED local
  /\ IF ~RequireAuth(sessions[c])
       THEN Respond(p, Response(401, "Unauthorized", NoRow))
     ELSE IF AccountsOf(sessions[c]) = {}
       THEN Respond(p, UserNotFoundAs401)
     ELSE Respond(p, Response(200, "user", NoRow))

\* auth.tsx lines 83-87: logout() removes the stored token and the user
Logout(c) ==
  /\ token[c]
  /\ token' = [token EXCEPT ![c] = FALSE]
  /\ UNCHANGED <<db, context, comments, uploads>>
  /\ UNCHANGED <<likeTables, followTables, accounts, sessions, local>>

\* lines 212-219: POST /api/auth/logout destroys the session of the cookie
PostLogout(p, c) ==
  /\ Fresh(p)
  /\ sessions' = [sessions EXCEPT ![c] = NoSession]
  /\ Respond(p, Response(200, "Logged out", NoRow))
  /\ UNCHANGED still
  /\ UNCHANGED <<notifications, likeTables, followTables, accounts, token,
                 local>>

\* lines 214-216: session.destroy reports an error
PostLogoutFails(p) ==
  /\ Fresh(p)
  /\ Respond(p, Response(500, "Logout failed", NoRow))
  /\ UNCHANGED still
  /\ UNCHANGED <<notifications, likeTables, followTables, authTables, local>>

\* is_banned of a user is set in the users table (schema.ts line 19)
Ban(u) ==
  /\ \E a \in AccountsOf(u) : ~a.isBanned
  /\ accounts' = {IF a.id = u THEN [a EXCEPT !.isBanned = TRUE] ELSE a :
                    a \in accounts}
  /\ UNCHANGED <<db, context, comments, uploads>>
  /\ UNCHANGED <<likeTables, followTables, sessions, token, local>>

AuthNext ==
  \/ \E p \in Reqs :
       \/ \E c \in Clients, b \in RegisterBodies : PostRegister(p, c, b)
       \/ RegisterInsert(p)
       \/ RegisterInsertConflict(p)
       \/ \E c \in Clients, b \in LoginBodies : PostLogin(p, c, b)
       \/ LoginCompare(p)
       \/ AuthFails(p)
       \/ \E c \in Clients : GetMe(p, c)
       \/ \E c \in Clients : PostLogout(p, c)
       \/ PostLogoutFails(p)
  \/ \E c \in Clients : Logout(c)
  \/ \E u \in UserIds : Ban(u)

AuthSpec == Init /\ [][AuthNext]_vars

----------------------------------------------------------------------------
\* POST /api/videos/upload (lines 297-325) and
\* POST /api/videos/:videoId/comments (lines 412-469)

\* req.file: none, a video, or a file refused by the fileFilter (lines 35-41)
Files == {"none", "video", "image"}

\* req.body.content of a comment
Contents == {"", "nice"}

UploadError  == "upload statement failed"
CommentError == "comment statement failed"

\* gen_random_uuid() of the video row inserted by request p
NewVideoId(p) == "up" \o ToString(p)

\* lines 45-50, 32-42 and 299-304: requireAuth, then multer stores the file,
\* then the handler checks req.file
PostUpload(p, sid, file) ==
  /\ Fresh(p)
  /\ UNCHANGED <<users, withdrawals, withdrawal, listed, screen, comments>>
  /\ UNCHANGED <<notifications, likeTables, followTables, authTables, local>>
  /\ IF ~RequireAuth(sid)
       THEN Respond(p, Response(401, "Unauthorized", NoRow))
            /\ UNCHANGED uploads
     ELSE IF file = "image"
       THEN Respond(p, Response(500, "Only video files are allowed", NoRow))
            /\ UNCHANGED uploads
     ELSE IF file = "none"
       THEN Respond(p, Response(400, "No video file uploaded", NoRow))
            /\ UNCHANGED uploads
     ELSE /\ uploads' = uploads \cup {NewVideoId(p)}
          /\ pc' = [pc EXCEPT ![p] = "uploadInsert"]
          /\ userId' = [userId EXCEPT ![p] = sid]
          /\ UNCHANGED <<body, res>>

\* lines 310-320: insert into videos; user_id references users.id
UploadInsert(p) ==
  /\ pc[p] = "uploadInsert"
  /\ userId[p] \in DOMAIN users
  /\ videos' = [v \in DOMAIN videos \cup {NewVideoId(p)} |->
                 IF v \in DOMAIN videos THEN videos[v]
                 ELSE [userId |-> userId[p], likeCount |-> 0,
                       commentCount |-> 0]]
  /\ Respond(p, Response(200, "video", NoRow))
  /\ UNCHANGED still
  /\ UNCHANGED <<notifications, likes, card, followTables, authTables, local>>

\* lines 45-50 and 414-420: requireAuth and the check of the content
PostComment(p, sid, vid, content) ==
  /\ Fresh(p)
  /\ UNCHANGED <<ledger, notifications, likeTables, followTables, authTables>>
  /\ IF ~RequireAuth(sid)
       THEN Respond(p, Response(401, "Unauthorized", NoRow))
            /\ UNCHANGED local
     ELSE IF content = ""
       THEN Respond(p, Response(400, "Comment cannot be empty", NoRow))
            /\ UNCHANGED local
     ELSE /\ pc' = [pc EXCEPT ![p] = "commentInsert"]
          /\ userId' = [userId EXCEPT ![p] = sid]
          /\ local' = [local EXCEPT ![p] =
                         [NoLocal EXCEPT !.target = vid, !.name = content]]
          /\ UNCHANGED res

\* lines 422-427: insert into comments; video_id and user_id are references
CommentInsert(p) ==
  /\ pc[p] = "commentInsert"
  /\ local[p].target \in DOMAIN videos
  /\ userId[p] \in DOMAIN users
  /\ comments' = comments \cup
       {[id |-> p, userId |-> userId[p], videoId |-> local[p].target,
         content |-> local[p].name]}
  /\ pc' = [pc EXCEPT ![p] = "commentInc"]
  /\ UNCHANGED <<users, withdrawals, body, withdrawal, listed, screen, uploads>>
  /\ UNCHANGED <<notifications, likeTables, followTables, authTables>>
  /\ UNCHANGED <<local, userId, res>>

\* lines 430-432
CommentInc(p) ==
  /\ pc[p] = "commentInc"
  /\ videos' = [videos EXCEPT ![local[p].target].commentCount = @ + 1]
  /\ pc' = [pc EXCEPT ![p] = "commentNotify"]
  /\ UNCHANGED <<ledger, notifications, likes, card, followTables, authTables>>
  /\ UNCHANGED <<local, userId, res>>

\* lines 435-465: the video and the commenter are read, the owner is notified
CommentNotify(p) ==
  /\ pc[p] = "commentNotify"
  /\ notifications' =
       IF videos[local[p].target].userId # userId[p]
         THEN notifications \cup
                {[userId |-> videos[local[p].target].userId,
                  type |-> "comment", withdrawalId |-> NoRow,
                  isRead |-> FALSE]}
         ELSE notifications
  /\ Respond(p, Response(200, "comment", NoRow))
  /\ local' = [local EXCEPT ![p] = NoLocal]
  /\ UNCHANGED still
  /\ UNCHANGED <<likeTables, followTables, authTables>>

\* a statement of the two handlers throws: catch, 500 (lines 321-324, 466-468)
UploadOrCommentFails(p) ==
  /\ pc[p] \in {"uploadInsert", "commentInsert", "commentInc", "commentNotify"}
  /\ Respond(p, Response(500,
                IF pc[p] = "uploadInsert" THEN UploadError ELSE CommentError,
                NoRow))
  /\ local' = [local EXCEPT ![p] = NoLocal]
  /\ UNCHANGED still
  /\ UNCHANGED <<notifications, likeTables, followTables, authTables>>

----------------------------------------------------------------------------
\* The endpoints behind requireAuth that write, served by one server

\* req.session.userId of the requests: none, or a user of the table
GuardSessions == {NoSession, "u1", "u2"}

\* req.body of the withdrawal requests
GuardBodies == {b \in Bodies : b.amount \in {20, 60} /\ b.network = "BEP20"}

GuardNext ==
  \E p \in Reqs :
    \/ \E sid \in GuardSessions :
         \/ \E b \in GuardBodies : PostWithdrawals(p, sid, b)
         \/ ReadAllNotifications(p, sid)
         \/ \E f \in Files : PostUpload(p, sid, f)
         \/ \E c \in Contents : PostComment(p, sid, "v1", c)
         \/ PostLike(p, sid, "v1")
         \/ \E target \in UserIds : PostFollow(p, sid, target)
         \/ \E target \in UserIds : DeleteFollow(p, sid, target)
    \/ InsertWithdrawal(p) \/ UpdateBalance(p) \/ InsertNotification(p)
    \/ UploadInsert(p)
    \/ CommentInsert(p) \/ CommentInc(p) \/ CommentNotify(p)
    \/ LikeStep(p)
    \/ FollowStep(p)
    \/ UploadOrCommentFails(p)

GuardSpec == Init /\ [][GuardNext]_vars

\* The withdrawal form checked for every amount, balance and wallet typed.
CheckInit == LedgerInit /\ SocialInit /\ CardInit /\ screen \in Screens

CheckNext == HandleWithdraw

CheckSpec == CheckInit /\ [][CheckNext]_vars

----------------------------------------------------------------------------
\* Helpers of the properties

RECURSIVE SumAmounts(_)
SumAmounts(rows) ==
  IF rows = <<>> THEN 0 ELSE Head(rows).amount + SumAmounts(Tail(rows))

\* the rows of user u that are in status st
RowsOf(u, st) ==
  SelectSeq(withdrawals, LAMBDA w : w.userId = u /\ w.status = st)

\* no handler is between two of its statements
Quiescent == \A p \in Reqs : pc[p] \in {"idle", "done"}

\* withdrawal request p was answered as succeeded: 200 with its row (line 763)
Succeeded(p) ==
  pc[p] = "done" /\ res[p].status = 200 /\ res[p].withdrawal # NoRow

\* the deduction of request p was applied (line 748 has run)
Deducted(p) ==
  \/ pc[p] = "notify"
  \/ Succeeded(p)
  \/ pc[p] = "done" /\ res[p].message = NotifyError

\* withdrawalRequestSchema, schema.ts lines 228-232
ValidRequest(amount, walletAddress, network) ==
  /\ amount > 0
  /\ Len(walletAddress) >= WalletMinLen
  /\ network \in Networks

----------------------------------------------------------------------------
\* C1: for every account, availableBalance >= 0 in every reachable state,
\* under every interleaving of withdrawal requests.
C1_BalanceNonNegative ==
  \A u \in UserIds : users[u].availableBalance >= 0

\* C2: two withdrawal requests of the same user against a balance that
\* suffices for only one of them never both succeed.
C2_NoDoubleSpend ==
  \A p, q \in Reqs :
    (p # q /\ Succeeded(p) /\ Succeeded(q)
       /\ withdrawals[res[p].withdrawal].userId
            = withdrawals[res[q].withdrawal].userId)
    => withdrawals[res[p].withdrawal].amount
         + withdrawals[res[q].withdrawal].amount
         <= InitBalance[withdrawals[res[p].withdrawal].userId]

\* C3: after every operation (no handler in flight), for every account
\* totalEarnings = availableBalance + withdrawnAmount + the amounts of the
\* account's pending withdrawals.
C3_LedgerBalanced ==
  Quiescent =>
    \A u \in UserIds :
      users[u].totalEarnings =
        users[u].availableBalance + users[u].withdrawnAmount
          + SumAmounts(RowsOf(u, "pending"))

\* C4: row creation and deduction are one atomic unit: once a request has
\* been answered, its withdrawal row exists exactly if its amount was
\* deducted, also after a storage failure.
C4_AtomicUnit ==
  \A p \in Reqs :
    pc[p] = "done" => (withdrawal[p] # NoRow <=> Deducted(p))

\* handler p is answered with the error `message` and the database is as before
Rejected(p, status, message) ==
  /\ pc'[p] = "done"
  /\ res'[p] = Response(status, message, NoRow)
  /\ UNCHANGED <<users, withdrawals, notifications>>

\* C5: a request with amount > availableBalance is answered 400
\* "Insufficient balance" and leaves the balances, the withdrawal rows
\* and the notifications unchanged.
C5_InsufficientRejected ==
  [][\A p \in Reqs, sid \in UserIds, b \in Bodies :
       (PostWithdrawals(p, sid, b) /\ b.amount > users[sid].availableBalance)
         => Rejected(p, 400, "Insufficient balance")]_vars

C5_Witness ==
  \E p \in Reqs :
    pc[p] = "done" /\ res[p] = Response(400, "Insufficient balance", NoRow)

\* C6 as stated: a request with amount < 10 is answered "Minimum withdrawal"
\* whatever the balance, also when the amount exceeds the balance.
C6_BelowMinimumAlways ==
  [][\A p \in Reqs, sid \in UserIds, b \in Bodies :
       (PostWithdrawals(p, sid, b) /\ b.amount < MinimumWithdrawal)
         => Rejected(p, 400, "Minimum withdrawal is $10")]_vars

\* C6 as amended: a request with amount < 10 is rejected with no change of
\* the database; the error is "Minimum withdrawal" when the amount is within
\* the balance and "Insufficient balance" when it also exceeds the balance.
C6_BelowMinimumRejected ==
  [][\A p \in Reqs, sid \in UserIds, b \in Bodies :
       (PostWithdrawals(p, sid, b) /\ b.amount < MinimumWithdrawal)
         => IF b.amount <= users[sid].availableBalance
              THEN Rejected(p, 400, "Minimum withdrawal is $10")
              ELSE Rejected(p, 400, "Insufficient balance")]_vars

C6_Witness ==
  \E p \in Reqs :
    pc[p] = "done" /\ res[p] = Response(400, "Minimum withdrawal is $10", NoRow)

\* C7: a request with minimum <= amount <= availableBalance is accepted; its
\* insert creates exactly one new row, owned by the caller, with that amount
\* and status pending; its update lowers the caller's availableBalance by
\* exactly the amount and changes nothing else; it is then answered 200 with
\* the row.
C7_ValidRequestCommits ==
  [][\A p \in Reqs :
       /\ \A sid \in UserIds, b \in Bodies :
            (PostWithdrawals(p, sid, b) /\ MinimumWithdrawal <= b.amount
               /\ b.amount <= users[sid].availableBalance)
              => pc'[p] = "insert" /\ userId'[p] = sid /\ body'[p] = b
       /\ (pc[p] = "insert" /\ pc'[p] = "update")
            => /\ Len(withdrawals') = Len(withdrawals) + 1
               /\ SubSeq(withdrawals', 1, Len(withdrawals)) = withdrawals
               /\ withdrawal'[p] = Len(withdrawals')
               /\ withdrawals'[withdrawal'[p]].id = withdrawal'[p]
               /\ withdrawals'[withdrawal'[p]].userId = userId[p]
               /\ withdrawals'[withdrawal'[p]].amount = body[p].amount
               /\ withdrawals'[withdrawal'[p]].status = "pending"
               /\ users' = users
       /\ (pc[p] = "update" /\ pc'[p] = "notify")
            => /\ users'[userId[p]].availableBalance
                    = users[userId[p]].availableBalance - body[p].amount
               /\ users' = [users EXCEPT ![userId[p]].availableBalance =
                                            users'[userId[p]].availableBalance]
               /\ withdrawals' = withdrawals
       /\ (pc[p] = "notify" /\ pc'[p] = "done" /\ res'[p].status = 200)
            => /\ res'[p].withdrawal = withdrawal[p]
               /\ users' = users /\ withdrawals' = withdrawals]_vars

\* the spec's scenario: balance 50, request 20 answered 200, balance 30, pending
C7_Witness ==
  \E p \in Reqs :
    /\ Succeeded(p)
    /\ withdrawals[res[p].withdrawal].amount = 20
    /\ withdrawals[res[p].withdrawal].userId = "u1"
    /\ withdrawals[res[p].withdrawal].status = "pending"
    /\ Len(withdrawals) = 1
    /\ users["u1"].availableBalance = 30

\* C8: no withdrawal row is ever created from a request that
\* withdrawalRequestSchema rejects (amount not positive, wallet address
\* shorter than 10, network outside {BEP20, ERC20}).
C8_OnlyValidRows ==
  \A i \in 1..Len(withdrawals) :
    ValidRequest(withdrawals[i].amount, withdrawals[i].walletAddress,
                 withdrawals[i].network)

\* C9: when writing the notification fails, the request is still answered as
\* succeeded (200, with its row), row and deduction staying committed.
C9_NotificationFireAndForget ==
  [][\A p \in Reqs :
       InsertNotificationFails(p)
         => /\ res'[p].status = 200
            /\ res'[p].withdrawal = withdrawal[p]
            /\ users' = users /\ withdrawals' = withdrawals]_vars

\* C15: a withdrawal request of a session whose user row does not exist is
\* answered 404 "User not found" and changes no withdrawal row, no balance
\* and no notification.
C15_UserNotFoundRejected ==
  [][\A p \in Reqs, sid \in SessionIds \ DOMAIN users, b \in Bodies :
       PostWithdrawals(p, sid, b) => Rejected(p, 404, "User not found")]_vars

C15_Witness ==
  \E p \in Reqs :
    pc[p] = "done" /\ res[p] = Response(404, "User not found", NoRow)

\* C16: every accepted request has minimum <= amount <= the availableBalance
\* stored on the server at the moment its deduction is applied.
C16_CheckedAtDeduction ==
  [][\A p \in Reqs :
       (pc[p] = "update" /\ pc'[p] = "notify")
         => /\ MinimumWithdrawal <= body[p].amount
            /\ body[p].amount <= users[userId[p]].availableBalance]_vars

\* C13: a withdrawal row, once created, is never deleted and none of its
\* fields is changed by any operation (the code has no lifecycle transition).
C13_RowsKept ==
  [][/\ Len(withdrawals') >= Len(withdrawals)
     /\ \A i \in 1..Len(withdrawals) : withdrawals'[i] = withdrawals[i]]_vars

\* a read-all ran after a withdrawal was committed, and the row is as created
C13_Witness ==
  \E n \in notifications :
    /\ n.isRead
    /\ withdrawals[n.withdrawalId].status = "pending"
    /\ withdrawals[n.withdrawalId].userId = n.userId

\* C14: GET /api/withdrawals answers a session with exactly the rows owned by
\* the session's user, and a request without session with 401 and no rows;
\* it changes nothing.
C14_ListsOwnRows ==
  [][\A p \in Reqs :
       /\ \A sid \in SessionIds :
            GetWithdrawals(p, sid)
              => /\ res'[p].status = 200
                 /\ {listed'[p][i] : i \in 1..Len(listed'[p])}
                      = {withdrawals[i] : i \in
                           {j \in 1..Len(withdrawals) :
                              withdrawals[j].userId = sid}}
                 /\ \A i, j \in 1..Len(listed'[p]) :
                      i # j => listed'[p][i] # listed'[p][j]
                 /\ UNCHANGED <<users, withdrawals, notifications>>
       /\ GetWithdrawals(p, NoSession)
            => /\ Rejected(p, 401, "Unauthorized")
               /\ listed'[p] = <<>>]_vars

C14_Witness ==
  \E p \in Reqs :
    /\ pc[p] = "done" /\ res[p].status = 200
    /\ Len(listed[p]) = 1
    /\ listed[p][1].userId = "u1"

\* C17: every withdrawal request is answered: a handler that has started
\* reaches its end, and a handler at its end has sent a response.
C17_EveryRequestAnswered ==
  \A p \in Reqs :
    /\ [](pc[p] = "done" => res[p].status \in {200, 400, 401, 404, 500})
    /\ (pc[p] \notin {"idle", "done"}) ~> (pc[p] = "done")

\* a request is answered after all three statements ran
C17_Witness ==
  \E p \in Reqs : Succeeded(p) /\ notifications # {}

\* C18: no operation lowers totalEarnings or withdrawnAmount of an account.
C18_EarningsMonotone ==
  [][\A u \in UserIds :
       /\ users'[u].totalEarnings >= users[u].totalEarnings
       /\ users'[u].withdrawnAmount >= users[u].withdrawnAmount]_vars

\* a deduction was written to a user row
C18_Witness ==
  \E u \in UserIds :
    /\ users[u].availableBalance < InitBalance[u]
    /\ users[u].totalEarnings = InitBalance[u]
    /\ users[u].withdrawnAmount = 0

\* C21: for every numeric amount and balance, the screen's pre-check leaves
\* the amount without error exactly if the server's check accepts the amount
\* against the same balance, and both accept exactly 10 <= amount <= balance.
C21_ClientServerAgree ==
  screen.stage # "form" =>
    /\ screen.errors.amount = ""
         <=> CheckAmount(screen.amount, screen.availableBalance) = "ok"
    /\ screen.errors.amount = ""
         <=> (MinimumWithdrawal <= screen.amount
                /\ screen.amount <= screen.availableBalance)

\* the form was submitted with an amount below the minimum and above the
\* balance, where the two checks give different messages
C21_Witness ==
  /\ screen.stage = "errors"
  /\ screen.amount = 8 /\ screen.availableBalance = 5
  /\ screen.errors.amount = "Minimum withdrawal is $10"
  /\ CheckAmount(screen.amount, screen.availableBalance) = "Insufficient balance"

\* C24: in every reachable state at most one like row exists per
\* (user, video) pair, also under concurrent like requests of one user.
C24_OneLikePerPair ==
  \A l, m \in likes :
    (l.userId = m.userId /\ l.videoId = m.videoId) => l = m

\* C25: when no like request is in flight, every video's likeCount equals the
\* number of like rows of the video and is not negative.
C25_LikeCountMatches ==
  Quiescent =>
    \A v \in DOMAIN videos :
      /\ videos[v].likeCount = Cardinality({l \in likes : l.videoId = v})
      /\ videos[v].likeCount >= 0

\* C27: when no request is in flight, the isLiked shown by the card equals
\* the like state the server stores for the card's user and video.
C27_CardAgreesWithServer ==
  Quiescent => (card.isLiked <=> LikesOf(CardUser, CardVideo) # {})

NoSelfFollow == \A f \in follows : f.followerId # f.followingId

OneFollowPerPair ==
  \A f, g \in follows :
    (f.followerId = g.followerId /\ f.followingId = g.followingId) => f = g

FollowCountsMatch ==
  \A u \in UserIds :
    /\ counts[u].followerCount
         = Cardinality({f \in follows : f.followingId = u})
    /\ counts[u].followingCount
         = Cardinality({f \in follows : f.followerId = u})

\* C26: when no follow or unfollow request is in flight, no follow row has
\* followerId = followingId, at most one follow row exists per (follower,
\* following) pair, and each user's followerCount and followingCount equal
\* the number of follow rows pointing to and from the user.
C26_FollowsConsistent ==
  Quiescent => (NoSelfFollow /\ OneFollowPerPair /\ FollowCountsMatch)

\* C23: no request is executed under the identity of a banned user: a
\* request with the session of a banned user is not answered 200, and no login
\* completes for a banned user.
C23_BannedCannotAct ==
  [][\A p \in Reqs :
       /\ \A c \in Clients :
            (GetMe(p, c) /\ Banned(sessions[c])) => res'[p].status # 200
       /\ (LoginCompare(p) /\ Banned(local[p].target))
            => res'[p].status # 200]_vars

\* C28: after the client's logout() has completed, a request with the
\* client's session is answered 401 by requireAuth.
C28_LogoutEndsSession ==
  [][\A p \in Reqs, c \in Clients :
       (GetMe(p, c) /\ ~token[c])
         => res'[p] = Response(401, "Unauthorized", NoRow)]_vars

\* C29: no two user records share an email or a username compared in lower
\* case, and a registration that loses against the unique constraint adds no
\* user record and sets no session.
C29_UniqueAccounts ==
  /\ [](\A a, b \in accounts :
          (\/ ToLowerCase(a.email) = ToLowerCase(b.email)
           \/ ToLowerCase(a.username) = ToLowerCase(b.username)) => a = b)
  /\ [][\A p \in Reqs :
          (pc[p] = "registerInsert" /\ pc'[p] = "done"
             /\ Conflict(local[p].target, local[p].name))
          => /\ res'[p].status = 500
             /\ UNCHANGED <<accounts, sessions, token>>]_vars

\* a registration lost against a concurrent one with the same email
C29_Witness ==
  \E p, q \in Reqs :
    /\ pc[p] = "done" /\ res[p] = Response(500, DuplicateKey, NoRow)
    /\ \E a \in AccountsOf(NewUserId(q)) : a.email = "cy@x.io"
    /\ Cardinality(accounts) = 3

\* what the server persists: the tables, the upload directory, the sessions
persisted ==
  <<users, withdrawals, notifications, videos, likes, comments, uploads,
    follows, counts, accounts, sessions>>

\* request p is answered 401 and nothing persisted has changed
Unauthorized(p) ==
  /\ pc'[p] = "done"
  /\ res'[p] = Response(401, "Unauthorized", NoRow)
  /\ UNCHANGED persisted

\* C22: a request without session userId to upload, like, comment, follow,
\* unfollow, read-all or withdrawals is answered 401 and changes no persisted
\* state; no statement of the handler body runs.
C22_NoSessionNoChange ==
  [][\A p \in Reqs :
       /\ \A b \in Bodies : PostWithdrawals(p, NoSession, b) => Unauthorized(p)
       /\ ReadAllNotifications(p, NoSession) => Unauthorized(p)
       /\ \A f \in Files : PostUpload(p, NoSession, f) => Unauthorized(p)
       /\ \A v \in VideoParams, c \in Contents :
            PostComment(p, NoSession, v, c) => Unauthorized(p)
       /\ \A v \in VideoParams : PostLike(p, NoSession, v) => Unauthorized(p)
       /\ \A t \in SessionIds : PostFollow(p, NoSession, t) => Unauthorized(p)
       /\ \A t \in SessionIds : DeleteFollow(p, NoSession, t) => Unauthorized(p)
    ]_vars

\* a request was refused while another user's upload was being stored
C22_Witness ==
  \E p, q \in Reqs :
    /\ pc[p] = "done" /\ res[p] = Response(401, "Unauthorized", NoRow)
    /\ pc[q] = "uploadInsert" /\ uploads # {}

====
